---- MODULE Spec2Model ----
(***************************************************************************)
(* The in-memory card store of goagain: the load pass that builds the      *)
(* secondary indexes (internal/data/store.go, loadCards), the filter       *)
(* engine (SearchCards, matchesFilter) and the per-format legality         *)
(* resolver (internal/domain/types.go, GetLegality).                       *)
(*                                                                         *)
(* A Go string is a sequence of one-character strings, so that ToLower,    *)
(* ToUpper, Contains and EqualFold compute on the characters.  The         *)
(* alphabet is the ASCII letters, the digits and the space and underscore. *)
(* A *domain.Card is the 1-based position of the card in Store.Cards.      *)
(* A Go map is a function whose DOMAIN is the set of keys present; a       *)
(* missing key reads as the zero value (nil slice = the empty sequence).   *)
(***************************************************************************)
EXTENDS Integers, Sequences, FiniteSets, TLC

VARIABLES
    phase,   \* where main is: "start" before NewStore has returned, "loaded" after
             \* it returned a store, "exited" after os.Exit, "ready" once the
             \* server listens
    data,    \* the cards of the embedded english/card.json that NewStore has still to read
    broken,  \* the embedded files whose read or parse fails
    store,   \* main's store: nil, or the Store NewStore returned
    err,     \* the error NewStore returned
    call,    \* the last SearchCards call: its filter, page and total
    walk,    \* a client that reads a result page by page
    lookup,  \* the last lookup call: its operation, argument and result
    leg,     \* the last Card.GetLegality call: its card, format and record
    limiter,   \* the rateLimiter of rateLimitMiddleware: rps, mu, clients
    requests,  \* the goroutines serving requests: where each one is, and its locals
    window,    \* per client IP, the requests allowed and rejected at the current instant
    cleanup    \* whether the cleanup goroutine holds the mutex

vars == <<phase, data, broken, store, err, call, walk, lookup, leg,
          limiter, requests, window, cleanup>>

----------------------------------------------------------------------------
(* Strings                                                                 *)

LowerLetters ==
    <<"a", "b", "c", "d", "e", "f", "g", "h", "i", "j", "k", "l", "m", "n", "o", "p", "q", "r", "s", "t", "u", "v", "w", "x", "y", "z">>

UpperLetters ==
    <<"A", "B", "C", "D", "E", "F", "G", "H", "I", "J", "K", "L", "M", "N", "O", "P", "Q", "R", "S", "T", "U", "V", "W", "X", "Y", "Z">>

LetterIndex(table, c) == CHOOSE i \in 1..Len(table) : table[i] = c

IsIn(table, c) == \E i \in 1..Len(table) : table[i] = c

\* unicode.ToLower on one ASCII character.
ToLowerChar(c) ==
    IF IsIn(UpperLetters, c) THEN LowerLetters[LetterIndex(UpperLetters, c)] ELSE c

\* unicode.ToUpper on one ASCII character.
ToUpperChar(c) ==
    IF IsIn(LowerLetters, c) THEN UpperLetters[LetterIndex(LowerLetters, c)] ELSE c

\* strings.ToLower
ToLower(str) == [i \in 1..Len(str) |-> ToLowerChar(str[i])]

\* strings.ToUpper
ToUpper(str) == [i \in 1..Len(str) |-> ToUpperChar(str[i])]

\* strings.Contains: substr occurs in str (the empty string occurs in every string).
Contains(str, substr) ==
    \E i \in 0..(Len(str) - Len(substr)) :
        \A j \in 1..Len(substr) : str[i + j] = substr[j]

\* strings.EqualFold on ASCII: equal under simple case folding.
EqualFold(a, b) ==
    /\ Len(a) = Len(b)
    /\ \A i \in 1..Len(a) : ToLowerChar(a[i]) = ToLowerChar(b[i])

\* slices.Contains
SliceContains(list, x) == \E i \in 1..Len(list) : list[i] = x

EmptyString == << >>

----------------------------------------------------------------------------
(* Domain types (internal/domain/types.go)                                 *)

FormatBlitz == <<"b", "l", "i", "t", "z">>
FormatCC == <<"c", "c">>
FormatCommoner == <<"c", "o", "m", "m", "o", "n", "e", "r">>
FormatLL == <<"l", "l">>
FormatSilverAge == <<"s", "i", "l", "v", "e", "r", "_", "a", "g", "e">>
FormatUPF == <<"u", "p", "f">>

\* The fixed class table of GetClass.
classes ==
    { <<"G", "e", "n", "e", "r", "i", "c">>,
      <<"W", "a", "r", "r", "i", "o", "r">>,
      <<"B", "r", "u", "t", "e">>,
      <<"G", "u", "a", "r", "d", "i", "a", "n">>,
      <<"N", "i", "n", "j", "a">>,
      <<"M", "e", "c", "h", "a", "n", "o", "l", "o", "g", "i", "s", "t">>,
      <<"R", "a", "n", "g", "e", "r">>,
      <<"R", "u", "n", "e", "b", "l", "a", "d", "e">>,
      <<"W", "i", "z", "a", "r", "d">>,
      <<"I", "l", "l", "u", "s", "i", "o", "n", "i", "s", "t">>,
      <<"E", "l", "e", "m", "e", "n", "t", "a", "l">>,
      <<"L", "i", "g", "h", "t">>,
      <<"S", "h", "a", "d", "o", "w">>,
      <<"I", "c", "e">>,
      <<"L", "i", "g", "h", "t", "n", "i", "n", "g">>,
      <<"E", "a", "r", "t", "h">>,
      <<"M", "y", "s", "t", "i", "c">>,
      <<"A", "s", "s", "a", "s", "s", "i", "n">>,
      <<"S", "h", "a", "p", "e", "s", "h", "i", "f", "t", "e", "r">>,
      <<"B", "a", "r", "d">>,
      <<"A", "d", "j", "u", "d", "i", "c", "a", "t", "o", "r">>,
      <<"N", "e", "c", "r", "o", "m", "a", "n", "c", "e", "r">>,
      <<"D", "r", "a", "c", "o", "n", "i", "c">>,
      <<"R", "o", "y", "a", "l">> }

RECURSIVE FirstClass(_, _)
FirstClass(types, i) ==
    IF i > Len(types) THEN EmptyString
    ELSE IF types[i] \in classes THEN types[i]
    ELSE FirstClass(types, i + 1)

\* Card.GetClass: the first type tag that is a class, "" when there is none.
GetClass(c) == FirstClass(c.Types, 1)

\* Card.HasType
HasType(c, typeName) == SliceContains(c.Types, typeName)

\* Mutant of UnknownFormatLegality: a default branch that reports every card
\* legal in a format it does not know.
UnknownFormatLegal(format) ==
    [Format |-> format, Legal |-> TRUE,
     LivingLegend |-> FALSE, Banned |-> FALSE,
     Suspended |-> FALSE, Restricted |-> FALSE]

\* The default branch of GetLegality: Legality{Format: format}, every flag false.
UnknownFormatLegality(format) ==
    [Format |-> format, Legal |-> FALSE,
     LivingLegend |-> FALSE, Banned |-> FALSE,
     Suspended |-> FALSE, Restricted |-> FALSE]

\* The Living Legend case without the restricted-list test.
LLLegalityNoRestricted(c, format) ==
    [Format |-> format,
     Legal |-> c.LLLegal /\ ~c.LLBanned,
     LivingLegend |-> FALSE, Banned |-> c.LLBanned,
     Suspended |-> FALSE, Restricted |-> c.LLRestricted]

\* The Ultimate Pit Fight case requiring a base-legal flag as the other cases do.
UPFLegalityBaseFlag(c, format) ==
    [Format |-> format,
     Legal |-> c.CCLegal /\ ~c.UPFBanned,
     LivingLegend |-> FALSE, Banned |-> c.UPFBanned,
     Suspended |-> FALSE, Restricted |-> FALSE]

\* The Commoner case reporting the Classic Constructed living-legend flag.
CommonerLegalityLivingLegend(c, format) ==
    [Format |-> format,
     Legal |-> c.CommonerLegal /\ ~c.CommonerBanned /\ ~c.CommonerSuspended,
     LivingLegend |-> c.CCLivingLegend, Banned |-> c.CommonerBanned,
     Suspended |-> c.CommonerSuspended, Restricted |-> FALSE]

\* case FormatBlitz of GetLegality
BlitzLegality(c, format) ==
    [Format |-> format,
     Legal |-> c.BlitzLegal /\ ~c.BlitzBanned /\ ~c.BlitzSuspended /\ ~c.BlitzLivingLegend,
     LivingLegend |-> c.BlitzLivingLegend, Banned |-> c.BlitzBanned,
     Suspended |-> c.BlitzSuspended, Restricted |-> FALSE]

\* case FormatCC of GetLegality
CCLegality(c, format) ==
    [Format |-> format,
     Legal |-> c.CCLegal /\ ~c.CCBanned /\ ~c.CCSuspended /\ ~c.CCLivingLegend,
     LivingLegend |-> c.CCLivingLegend, Banned |-> c.CCBanned,
     Suspended |-> c.CCSuspended, Restricted |-> FALSE]

\* case FormatCommoner of GetLegality
CommonerLegality(c, format) ==
    [Format |-> format,
     Legal |-> c.CommonerLegal /\ ~c.CommonerBanned /\ ~c.CommonerSuspended,
     LivingLegend |-> FALSE, Banned |-> c.CommonerBanned,
     Suspended |-> c.CommonerSuspended, Restricted |-> FALSE]

\* case FormatLL of GetLegality
LLLegality(c, format) ==
    [Format |-> format,
     Legal |-> c.LLLegal /\ ~c.LLBanned /\ ~c.LLRestricted,
     LivingLegend |-> FALSE, Banned |-> c.LLBanned,
     Suspended |-> FALSE, Restricted |-> c.LLRestricted]

\* case FormatSilverAge of GetLegality
SilverAgeLegality(c, format) ==
    [Format |-> format,
     Legal |-> c.SilverAgeLegal /\ ~c.SilverAgeBanned,
     LivingLegend |-> FALSE, Banned |-> c.SilverAgeBanned,
     Suspended |-> FALSE, Restricted |-> FALSE]

\* case FormatUPF of GetLegality
UPFLegality(c, format) ==
    [Format |-> format,
     Legal |-> ~c.UPFBanned,
     LivingLegend |-> FALSE, Banned |-> c.UPFBanned,
     Suspended |-> FALSE, Restricted |-> FALSE]

\* Card.GetLegality: the switch on the format.
GetLegality(c, format) ==
    IF format = FormatBlitz THEN BlitzLegality(c, format)
    ELSE IF format = FormatCC THEN CCLegality(c, format)
    ELSE IF format = FormatCommoner THEN CommonerLegality(c, format)
    ELSE IF format = FormatLL THEN LLLegality(c, format)
    ELSE IF format = FormatSilverAge THEN SilverAgeLegality(c, format)
    ELSE IF format = FormatUPF THEN UPFLegality(c, format)
    ELSE UnknownFormatLegality(format)

----------------------------------------------------------------------------
(* The embedded data: english/card.json                                    *)

MaxCards == 2

TypeAura == <<"A", "u", "r", "a">>
ClassIce == <<"I", "c", "e">>
ClassBard == <<"B", "a", "r", "d">>
KeywordBoost == <<"B", "o", "o", "s", "t">>
KeywordCombo == <<"C", "o", "m", "b", "o">>
SetWTR == <<"W", "T", "R">>
SetARC == <<"A", "R", "C">>
NameBolt == <<"B", "o", "l", "t">>
NameZap == <<"Z", "a", "p">>
TextDraw == <<"D", "r", "a", "w">>

Printing(setID) == [SetID |-> setID]

\* The zero value of domain.Card, for the fields the store reads.
ZeroCard ==
    [UniqueID |-> EmptyString,
     Name |-> EmptyString,
     Pitch |-> EmptyString,
     Types |-> << >>,
     CardKeywords |-> << >>,
     FunctionalTextPlain |-> EmptyString,
     Printings |-> << >>,
     BlitzLegal |-> FALSE, CCLegal |-> FALSE, CommonerLegal |-> FALSE,
     LLLegal |-> FALSE, SilverAgeLegal |-> FALSE,
     BlitzLivingLegend |-> FALSE, CCLivingLegend |-> FALSE,
     BlitzBanned |-> FALSE, CCBanned |-> FALSE, CommonerBanned |-> FALSE,
     LLBanned |-> FALSE, SilverAgeBanned |-> FALSE, UPFBanned |-> FALSE,
     BlitzSuspended |-> FALSE, CCSuspended |-> FALSE, CommonerSuspended |-> FALSE,
     LLRestricted |-> FALSE]

\* The seventeen legality flags of a Card.
FlagNames ==
    {"BlitzLegal", "CCLegal", "CommonerLegal", "LLLegal", "SilverAgeLegal",
     "BlitzLivingLegend", "CCLivingLegend",
     "BlitzBanned", "CCBanned", "CommonerBanned", "LLBanned", "SilverAgeBanned",
     "UPFBanned",
     "BlitzSuspended", "CCSuspended", "CommonerSuspended",
     "LLRestricted"}

\* The card whose flags are the values of f and whose other fields are zero.
FlagCard(f) ==
    [ZeroCard EXCEPT
        !.BlitzLegal = f["BlitzLegal"], !.CCLegal = f["CCLegal"],
        !.CommonerLegal = f["CommonerLegal"], !.LLLegal = f["LLLegal"],
        !.SilverAgeLegal = f["SilverAgeLegal"],
        !.BlitzLivingLegend = f["BlitzLivingLegend"],
        !.CCLivingLegend = f["CCLivingLegend"],
        !.BlitzBanned = f["BlitzBanned"], !.CCBanned = f["CCBanned"],
        !.CommonerBanned = f["CommonerBanned"], !.LLBanned = f["LLBanned"],
        !.SilverAgeBanned = f["SilverAgeBanned"], !.UPFBanned = f["UPFBanned"],
        !.BlitzSuspended = f["BlitzSuspended"], !.CCSuspended = f["CCSuspended"],
        !.CommonerSuspended = f["CommonerSuspended"],
        !.LLRestricted = f["LLRestricted"]]

\* Every combination of flag values.
FlagCards == {FlagCard(f) : f \in [FlagNames -> BOOLEAN]}

\* A card legal in every format.
LegalCard ==
    [ZeroCard EXCEPT !.BlitzLegal = TRUE, !.CCLegal = TRUE, !.CommonerLegal = TRUE,
                     !.LLLegal = TRUE, !.SilverAgeLegal = TRUE]

\* The cards a file may hold.  Two pitches of one name; a card with two printings
\* in one set; a card under two keywords and one under none; a card whose first
\* class tag is not Ice; a card banned in Blitz.
CardPool ==
    { [LegalCard EXCEPT !.Name = NameBolt, !.Pitch = <<"1">>,
                        !.Types = <<ClassIce, TypeAura>>,
                        !.CardKeywords = <<KeywordBoost>>,
                        !.FunctionalTextPlain = TextDraw,
                        !.Printings = <<Printing(SetWTR), Printing(SetWTR)>>],
      [LegalCard EXCEPT !.Name = NameBolt, !.Pitch = <<"2">>,
                        !.Types = <<TypeAura>>,
                        !.CardKeywords = <<KeywordBoost, KeywordCombo>>,
                        !.FunctionalTextPlain = TextDraw,
                        !.Printings = <<Printing(SetARC)>>],
      [LegalCard EXCEPT !.Name = NameZap, !.Pitch = <<"3">>,
                        !.Types = <<ClassIce>>,
                        !.CardKeywords = <<KeywordCombo>>,
                        !.Printings = <<Printing(SetARC), Printing(SetWTR)>>,
                        !.BlitzBanned = TRUE],
      [LegalCard EXCEPT !.Name = NameZap,
                        !.Types = <<ClassBard, ClassIce>>,
                        !.Printings = <<Printing(SetWTR)>>] }

\* A card that every predicate of the filters below lets through and that is
\* legal in every format.
BaseCard ==
    [LegalCard EXCEPT !.Name = NameBolt, !.Pitch = <<"1">>,
                      !.Types = <<ClassIce, TypeAura>>,
                      !.CardKeywords = <<KeywordBoost>>,
                      !.FunctionalTextPlain = TextDraw,
                      !.Printings = <<Printing(SetWTR)>>]

\* Cards that differ in their legality flags only.  Each of the seventeen flags
\* makes one of them illegal in its format while the card stays legal in some
\* other format.
LegalityPool ==
    { BaseCard,
      [BaseCard EXCEPT !.BlitzLivingLegend = TRUE, !.CCSuspended = TRUE,
                       !.CommonerBanned = TRUE, !.LLRestricted = TRUE,
                       !.SilverAgeLegal = FALSE, !.UPFBanned = TRUE],
      [BaseCard EXCEPT !.BlitzSuspended = TRUE, !.CCLivingLegend = TRUE,
                       !.CommonerSuspended = TRUE, !.LLBanned = TRUE,
                       !.SilverAgeBanned = TRUE],
      [BaseCard EXCEPT !.BlitzBanned = TRUE, !.CCLegal = FALSE,
                       !.CommonerLegal = FALSE, !.LLLegal = FALSE],
      [BaseCard EXCEPT !.BlitzLegal = FALSE, !.CCBanned = TRUE] }

LegalityFiles == UNION {[1..n -> LegalityPool] : n \in 1..MaxCards}

Digits == <<"1", "2", "3", "4", "5", "6", "7", "8", "9">>

UniqueIDOf(i) == <<"c", Digits[i]>>

CardFiles ==
    UNION {[1..n -> CardPool] : n \in 1..MaxCards}

WithIDs(file) == [i \in 1..Len(file) |-> [file[i] EXCEPT !.UniqueID = UniqueIDOf(i)]]

----------------------------------------------------------------------------
(* Store (internal/data/store.go)                                          *)

EmptyMap == [k \in {} |-> << >>]

\* m[k] of a Go map of slices: nil (the empty sequence) for a missing key.
MapGet(m, k) == IF k \in DOMAIN m THEN m[k] ELSE << >>

\* m[k] == nil for a map whose present buckets all come from append
IsNil(m, k) == k \notin DOMAIN m

\* m[k] = v
MapSet(m, k, v) == [x \in DOMAIN m \cup {k} |-> IF x = k THEN v ELSE m[x]]

\* m[k] = append(m[k], v)
MapAppend(m, k, v) == MapSet(m, k, Append(MapGet(m, k), v))

\* for _, k := range keys { m[k] = append(m[k], v) }
RECURSIVE MapAppendEach(_, _, _, _)
MapAppendEach(m, keys, j, v) ==
    IF j > Len(keys) THEN m
    ELSE MapAppendEach(MapAppend(m, keys[j], v), keys, j + 1, v)

\* The Store allocated at the top of NewStore: empty collections and maps.
EmptyStore ==
    [Cards |-> << >>,
     CardsByID |-> EmptyMap,
     CardsByName |-> EmptyMap,
     CardsBySetID |-> EmptyMap,
     CardsByClass |-> EmptyMap,
     CardsByType |-> EmptyMap,
     CardsByKeyword |-> EmptyMap,
     Sets |-> << >>,
     Keywords |-> << >>,
     Abilities |-> << >>,
     Types |-> << >>,
     SetsByID |-> EmptyMap,
     KeywordsByName |-> EmptyMap,
     TypesByName |-> EmptyMap]

\* The body of loadCards' index loop for the card at position i.
IndexCard(s, i) ==
    LET card == s.Cards[i]
        cardClass == GetClass(card)
        setIDs == [j \in 1..Len(card.Printings) |-> card.Printings[j].SetID]
    IN  [s EXCEPT
            !.CardsByID = MapSet(@, card.UniqueID, i),
            !.CardsByName = MapAppend(@, ToLower(card.Name), i),
            !.CardsBySetID = MapAppendEach(@, setIDs, 1, i),
            !.CardsByClass = IF cardClass # EmptyString
                             THEN MapAppend(@, cardClass, i) ELSE @,
            !.CardsByType = MapAppendEach(@, card.Types, 1, i),
            !.CardsByKeyword = MapAppendEach(@, card.CardKeywords, 1, i)]

RECURSIVE IndexCards(_, _)
IndexCards(s, i) ==
    IF i > Len(s.Cards) THEN s ELSE IndexCards(IndexCard(s, i), i + 1)

\* Store.loadCards: s.Cards = cards, then one pass that fills every index.
loadCards(s, cards) == IndexCards([s EXCEPT !.Cards = cards], 1)

\* The embedded english/type.json, set.json, keyword.json and ability.json.
TypeFile == <<[UniqueID |-> <<"t", "1">>, Name |-> TypeAura],
              [UniqueID |-> <<"t", "2">>, Name |-> ClassIce]>>

SetFile == <<[UniqueID |-> <<"s", "1">>, ID |-> SetWTR, Name |-> <<"W", "e", "l", "c", "o", "m", "e">>],
             [UniqueID |-> <<"s", "2">>, ID |-> SetARC, Name |-> <<"A", "r", "c", "a", "n", "e">>]>>

KeywordFile == <<[UniqueID |-> <<"k", "1">>, Name |-> KeywordBoost],
                 [UniqueID |-> <<"k", "2">>, Name |-> KeywordCombo]>>

AbilityFile == <<[UniqueID |-> <<"a", "1">>, Name |-> <<"A", "c", "t", "i", "o", "n">>]>>

\* for _, t := range types { s.TypesByName[t.Name] = t }
RECURSIVE IndexTypes(_, _)
IndexTypes(s, i) ==
    IF i > Len(s.Types) THEN s
    ELSE IndexTypes([s EXCEPT !.TypesByName = MapSet(@, s.Types[i].Name, i)], i + 1)

\* Store.loadTypes once the file is read and parsed.
loadTypes(s, types) == IndexTypes([s EXCEPT !.Types = types], 1)

\* for _, set := range sets { s.SetsByID[set.ID] = set }
RECURSIVE IndexSets(_, _)
IndexSets(s, i) ==
    IF i > Len(s.Sets) THEN s
    ELSE IndexSets([s EXCEPT !.SetsByID = MapSet(@, s.Sets[i].ID, i)], i + 1)

\* Store.loadSets once the file is read and parsed.
loadSets(s, sets) == IndexSets([s EXCEPT !.Sets = sets], 1)

\* for _, kw := range keywords { s.KeywordsByName[strings.ToLower(kw.Name)] = kw }
RECURSIVE IndexKeywords(_, _)
IndexKeywords(s, i) ==
    IF i > Len(s.Keywords) THEN s
    ELSE IndexKeywords(
             [s EXCEPT !.KeywordsByName = MapSet(@, ToLower(s.Keywords[i].Name), i)],
             i + 1)

\* Store.loadKeywords once the file is read and parsed.
loadKeywords(s, keywords) == IndexKeywords([s EXCEPT !.Keywords = keywords], 1)

\* Store.loadAbilities once the file is read and parsed.
loadAbilities(s, abilities) == [s EXCEPT !.Abilities = abilities]

\* The five embedded files, in the order NewStore loads them.
Streams == {"types", "cards", "sets", "keywords", "abilities"}

\* A nil error and a nil *Store.
NilError == "nil"
NilStore == [nil |-> TRUE]

\* A loader: ReadFile or Unmarshal of a broken file fails and the loader returns
\* the error with s as it was; otherwise s becomes the loaded store.
Load(stream, brk, s, loaded) ==
    IF stream \in brk THEN [s |-> s, err |-> stream]
    ELSE [s |-> loaded, err |-> NilError]

\* NewStore handing out the store as far as it was loaded, with the error.
FailedWithPartialStore(s, e) == [store |-> s, err |-> e]

\* return nil, fmt.Errorf("loading ...: %w", err)
Failed(s, e) == [store |-> NilStore, err |-> e]

\* NewStore: the empty store, then the five loaders in order; the first error
\* ends it.
NewStoreOf(cards, brk) ==
    LET t == Load("types", brk, EmptyStore, loadTypes(EmptyStore, TypeFile))
    IN  IF t.err # NilError THEN Failed(t.s, t.err) ELSE
    LET c == Load("cards", brk, t.s, loadCards(t.s, cards))
    IN  IF c.err # NilError THEN Failed(c.s, c.err) ELSE
    LET st == Load("sets", brk, c.s, loadSets(c.s, SetFile))
    IN  IF st.err # NilError THEN Failed(st.s, st.err) ELSE
    LET k == Load("keywords", brk, st.s, loadKeywords(st.s, KeywordFile))
    IN  IF k.err # NilError THEN Failed(k.s, k.err) ELSE
    LET a == Load("abilities", brk, k.s, loadAbilities(k.s, AbilityFile))
    IN  IF a.err # NilError THEN Failed(a.s, a.err) ELSE
    [store |-> a.s, err |-> NilError]

\* main carrying on with whatever NewStore returned.
AfterNewStoreIgnoringError(e) == "loaded"

\* main after NewStore: os.Exit(1) on an error, otherwise on to the server.
AfterNewStore(e) == IF e # NilError THEN "exited" ELSE "loaded"

----------------------------------------------------------------------------
(* CardFilter and the filters a caller sends                               *)

MaxPreds == 2
MaxLimit == 2
MaxOffset == 2

FilterNames == {EmptyString, <<"o", "l", "t">>, <<"O", "L", "T">>}
FilterTypes == {EmptyString, TypeAura}
FilterClasses == {EmptyString, ClassIce, <<"i", "c", "e">>}
FilterSetIDs == {EmptyString, SetWTR, <<"w", "t", "r">>}
FilterPitches == {EmptyString, <<"1">>}
FilterKeywords == {EmptyString, <<"b", "o">>, KeywordBoost}
FilterTexts == {EmptyString, <<"d", "r", "a", "w">>}
UnknownFormat == <<"z", "z">>
FilterFormats == {EmptyString, FormatBlitz, UnknownFormat}

PredicateFields == {"Name", "Type", "Class", "SetID", "Pitch", "Keyword", "TextQuery", "LegalIn"}

SetFields(f) == {x \in PredicateFields : f[x] # EmptyString}

Predicates ==
    {f \in [Name : FilterNames, Type : FilterTypes, Class : FilterClasses,
            SetID : FilterSetIDs, Pitch : FilterPitches, Keyword : FilterKeywords,
            TextQuery : FilterTexts, LegalIn : FilterFormats] :
        Cardinality(SetFields(f)) <= MaxPreds}

CardFilter(p, limit, offset) ==
    [Name |-> p.Name, Type |-> p.Type, Class |-> p.Class, SetID |-> p.SetID,
     Pitch |-> p.Pitch, Keyword |-> p.Keyword, TextQuery |-> p.TextQuery,
     LegalIn |-> p.LegalIn, Limit |-> limit, Offset |-> offset]

Limits == 0..MaxLimit
Offsets == (-1)..MaxOffset

Filters == {CardFilter(p, l, o) : p \in Predicates, l \in Limits, o \in Offsets}

\* The zero value of CardFilter.
ZeroFilter ==
    [Name |-> EmptyString, Type |-> EmptyString, Class |-> EmptyString,
     SetID |-> EmptyString, Pitch |-> EmptyString, Keyword |-> EmptyString,
     TextQuery |-> EmptyString, LegalIn |-> EmptyString, Limit |-> 0, Offset |-> 0]

----------------------------------------------------------------------------
(* Store.SearchCards and Store.matchesFilter                               *)

\* The name test comparing the name as it is written.
matchesNameCaseSensitive(card, filter) ==
    filter.Name # EmptyString => Contains(card.Name, filter.Name)

\* The name filter of matchesFilter (partial match).
matchesName(card, filter) ==
    filter.Name # EmptyString =>
        Contains(ToLower(card.Name), ToLower(filter.Name))

\* The legality test keeping every card that is not banned.
matchesLegalInNotBanned(card, filter) ==
    filter.LegalIn # EmptyString => ~GetLegality(card, filter.LegalIn).Banned

\* The format legality filter of matchesFilter.
matchesLegalIn(card, filter) ==
    filter.LegalIn # EmptyString => GetLegality(card, filter.LegalIn).Legal

\* Store.matchesFilter
matchesFilter(s, card, filter) ==
    /\ matchesName(card, filter)
    /\ (filter.Type # EmptyString /\ IsNil(s.CardsByType, filter.Type)) =>
           HasType(card, filter.Type)
    /\ (filter.Class # EmptyString /\ IsNil(s.CardsByClass, filter.Class)) =>
           EqualFold(GetClass(card), filter.Class)
    /\ (filter.SetID # EmptyString /\ IsNil(s.CardsBySetID, ToUpper(filter.SetID))) =>
           \E j \in 1..Len(card.Printings) :
               EqualFold(card.Printings[j].SetID, filter.SetID)
    /\ filter.Pitch # EmptyString => card.Pitch = filter.Pitch
    /\ filter.Keyword # EmptyString =>
           \E j \in 1..Len(card.CardKeywords) :
               Contains(ToLower(card.CardKeywords[j]), ToLower(filter.Keyword))
    /\ filter.TextQuery # EmptyString =>
           Contains(ToLower(card.FunctionalTextPlain), ToLower(filter.TextQuery))
    /\ matchesLegalIn(card, filter)

\* The keys of CardsByKeyword on which the range loop of SearchCards breaks.
MatchingKeywords(s, filter) ==
    {kw \in DOMAIN s.CardsByKeyword :
        Contains(ToLower(kw), ToLower(filter.Keyword))}

\* What the range loop over the CardsByKeyword map can find: Go iterates a map in
\* an unspecified order that changes from one range statement to the next, so the
\* first matching key is any matching key ({kw}); no key matches: {}.
KeywordRange(s, filter) ==
    IF MatchingKeywords(s, filter) = {} THEN {{}}
    ELSE {{kw} : kw \in MatchingKeywords(s, filter)}

AllCards(s) == [i \in 1..Len(s.Cards) |-> i]

\* The class filter served from the type index.
ClassCandidatesByType(s, filter) == MapGet(s.CardsByType, filter.Class)

\* The class branch of the candidate selection: the bucket of the class index.
ClassCandidates(s, filter) == MapGet(s.CardsByClass, filter.Class)

\* The candidate list of SearchCards; found is the outcome of the keyword loop.
Candidates(s, filter, found) ==
    IF filter.Class # EmptyString THEN ClassCandidates(s, filter)
    ELSE IF filter.Type # EmptyString THEN MapGet(s.CardsByType, filter.Type)
    ELSE IF filter.Keyword # EmptyString THEN
        IF found # {} THEN s.CardsByKeyword[CHOOSE kw \in found : TRUE]
        ELSE AllCards(s)
    ELSE IF filter.SetID # EmptyString THEN MapGet(s.CardsBySetID, ToUpper(filter.SetID))
    ELSE AllCards(s)

\* The pagination at the end of SearchCards.
Paginate(results, filter) ==
    LET total == Len(results)
        fromOffset == IF filter.Offset > 0
                      THEN SubSeq(results, filter.Offset + 1, Len(results))
                      ELSE results
        page == IF filter.Limit > 0 /\ Len(fromOffset) > filter.Limit
                THEN SubSeq(fromOffset, 1, filter.Limit)
                ELSE fromOffset
    IN  IF filter.Offset > 0 /\ filter.Offset >= Len(results)
        THEN [page |-> << >>, total |-> total]
        ELSE [page |-> page, total |-> total]

\* Store.SearchCards: candidates, residual filter, total, pagination.
SearchCards(s, filter, found) ==
    LET candidates == Candidates(s, filter, found)
        results == SelectSeq(candidates, LAMBDA i : matchesFilter(s, s.Cards[i], filter))
    IN  Paginate(results, filter)

----------------------------------------------------------------------------
(* The lookups of the Store                                                *)

\* A nil pointer; a pointer to an entity is its position in its collection.
NilPtr == 0

\* m[k] of a Go map of pointers: nil for a missing key.
MapGetPtr(m, k) == IF k \in DOMAIN m THEN m[k] ELSE NilPtr

\* An index expression that enters a missing key with the zero value.
MapAfterIndexInserting(m, k) == IF k \in DOMAIN m THEN m ELSE MapSet(m, k, << >>)

\* The map after the index expression m[k]: reading a key, present or missing,
\* leaves a Go map as it is.
MapAfterIndex(m, k) == m

\* The identifiers a caller may pass: the IDs of the loaded cards and one that
\* is no card's ID.
IDArgs == {UniqueIDOf(i) : i \in 1..MaxCards} \cup {<<"c", "0">>}

\* The names a caller may pass: a card name in three casings, a part of it,
\* a second name and the name of no card.
NameArgs ==
    {NameBolt, ToLower(NameBolt), ToUpper(NameBolt), <<"o", "l", "t">>,
     NameZap, <<"N", "o">>}

\* The keyword names a caller may pass.
KeywordArgs ==
    {KeywordBoost, ToLower(KeywordBoost), ToUpper(KeywordBoost), <<"b", "o">>,
     KeywordCombo}

\* GetCardsByName reading the index with the name as it is written.
GetCardsByNameExactCase(s, name) == MapGet(s.CardsByName, name)

\* GetSetByID reading the index with the code as it is written.
GetSetByIDExactCase(s, id) == MapGetPtr(s.SetsByID, id)

\* GetCardByID reading the name index.
GetCardByIDFirstOfName(s, id) ==
    IF MapGet(s.CardsByName, ToLower(id)) = << >> THEN NilPtr
    ELSE MapGet(s.CardsByName, ToLower(id))[1]

\* Store.GetCardByID
GetCardByID(s, id) == MapGetPtr(s.CardsByID, id)

\* Store.GetCardsByName
GetCardsByName(s, name) == MapGet(s.CardsByName, ToLower(name))

\* Store.GetSetByID
GetSetByID(s, id) == MapGetPtr(s.SetsByID, ToUpper(id))

\* Store.GetKeywordByName
GetKeywordByName(s, name) == MapGetPtr(s.KeywordsByName, ToLower(name))

----------------------------------------------------------------------------
(* Store.SearchSets and Store.Stats                                        *)

\* The set filters a caller sends: parts of a name and of a code in either
\* casing, a query found in a name only, in a code only, in both and in neither.
SetFilterNames == {EmptyString, <<"e", "l", "c">>, <<"A", "R", "C">>}
SetFilterIDs == {EmptyString, <<"w", "t">>, <<"R">>}
SetFilterQueries ==
    {EmptyString, <<"E", "L", "C">>, <<"t", "r">>, <<"a", "r", "c">>, <<"z", "z">>}

SetFilters == [Name : SetFilterNames, ID : SetFilterIDs, Query : SetFilterQueries]

\* The query test looking at the set name alone.
matchesSetQueryNameOnly(set, filter) ==
    filter.Query # EmptyString =>
        Contains(ToLower(set.Name), ToLower(filter.Query))

\* The query filter of matchesSetFilter (searches both name and ID).
matchesSetQuery(set, filter) ==
    filter.Query # EmptyString =>
        LET query == ToLower(filter.Query)
            nameMatch == Contains(ToLower(set.Name), query)
            idMatch == Contains(ToLower(set.ID), query)
        IN  ~(~nameMatch /\ ~idMatch)

\* Store.matchesSetFilter
matchesSetFilter(set, filter) ==
    /\ filter.Name # EmptyString =>
           Contains(ToLower(set.Name), ToLower(filter.Name))
    /\ filter.ID # EmptyString =>
           Contains(ToLower(set.ID), ToLower(filter.ID))
    /\ matchesSetQuery(set, filter)

\* Store.SearchSets
SearchSets(s, filter) ==
    SelectSeq([i \in 1..Len(s.Sets) |-> i],
              LAMBDA i : matchesSetFilter(s.Sets[i], filter))

\* Store.Stats
Stats(s) ==
    [dataStats |->
        [cards |-> Len(s.Cards), sets |-> Len(s.Sets), keywords |-> Len(s.Keywords),
         abilities |-> Len(s.Abilities), types |-> Len(s.Types)],
     indexStats |->
        [cards_by_id |-> Cardinality(DOMAIN s.CardsByID),
         cards_by_name |-> Cardinality(DOMAIN s.CardsByName),
         cards_by_set_id |-> Cardinality(DOMAIN s.CardsBySetID),
         sets_by_id |-> Cardinality(DOMAIN s.SetsByID),
         keywords_by_name |-> Cardinality(DOMAIN s.KeywordsByName),
         types_by_name |-> Cardinality(DOMAIN s.TypesByName),
         cards_by_class |-> Cardinality(DOMAIN s.CardsByClass),
         cards_by_type |-> Cardinality(DOMAIN s.CardsByType),
         cards_by_keyword |-> Cardinality(DOMAIN s.CardsByKeyword)]]

----------------------------------------------------------------------------
(* Store.GetCardsInSet                                                     *)

\* The set codes a caller may pass: a code, another casing of it, a second code
\* and a code no card is printed in.
SetArgs == {SetWTR, <<"w", "t", "r">>, SetARC, <<"L", "G", "S">>}

\* The bucket of the set index as it is, without the deduplication.
GetCardsInSetNoDedupe(s, setID) == MapGet(s.CardsBySetID, ToUpper(setID))

\* The loop of GetCardsInSet over the bucket, from position k on: seen holds the
\* UniqueIDs met so far, results the cards kept so far.
RECURSIVE GetCardsInSetLoop(_, _, _, _, _)
GetCardsInSetLoop(s, bucket, k, seen, results) ==
    IF k > Len(bucket) THEN results
    ELSE LET id == s.Cards[bucket[k]].UniqueID
         IN  IF id \in seen
             THEN GetCardsInSetLoop(s, bucket, k + 1, seen, results)
             ELSE GetCardsInSetLoop(s, bucket, k + 1, seen \cup {id},
                                    Append(results, bucket[k]))

\* Store.GetCardsInSet
GetCardsInSet(s, setID) ==
    GetCardsInSetLoop(s, MapGet(s.CardsBySetID, ToUpper(setID)), 1, {}, << >>)

----------------------------------------------------------------------------
(* Handler.ListCards                                                       *)

DecimalDigits == <<"0", "1", "2", "3", "4", "5", "6", "7", "8", "9">>

IsDigit(c) == \E d \in 1..Len(DecimalDigits) : DecimalDigits[d] = c

DigitValue(c) == (CHOOSE d \in 1..Len(DecimalDigits) : DecimalDigits[d] = c) - 1

\* The value of the decimal digits str[1..k].
RECURSIVE DigitsValue(_, _)
DigitsValue(str, k) ==
    IF k = 0 THEN 0 ELSE 10 * DigitsValue(str, k - 1) + DigitValue(str[k])

\* strconv.Atoi: an optional sign and at least one decimal digit; anything else
\* is an error.
Atoi(str) ==
    LET signed == str # << >> /\ str[1] \in {"+", "-"}
        body == IF signed THEN Tail(str) ELSE str
    IN  IF body = << >> \/ \E k \in 1..Len(body) : ~IsDigit(body[k])
        THEN [ok |-> FALSE, val |-> 0]
        ELSE [ok |-> TRUE,
              val |-> IF signed /\ str[1] = "-"
                      THEN 0 - DigitsValue(body, Len(body))
                      ELSE DigitsValue(body, Len(body))]

\* getIntParam, val being r.URL.Query().Get(name)
getIntParam(val, defaultVal) ==
    IF val = EmptyString THEN defaultVal
    ELSE IF ~Atoi(val).ok THEN defaultVal
    ELSE Atoi(val).val

\* The default of the limit parameter and the cap of ListCards.
DefaultLimit == 50
LimitCap == 100

\* if filter.Limit > 100 { filter.Limit = 100 }
CapLimit(limit) == IF limit > LimitCap THEN LimitCap ELSE limit

\* Handler.ListCards for a request with the limit and offset query parameters:
\* the filter, the page and the total of the response.
ListCards(s, limitParam, offsetParam, found) ==
    LET filter == [ZeroFilter EXCEPT
                      !.Limit = CapLimit(getIntParam(limitParam, DefaultLimit)),
                      !.Offset = getIntParam(offsetParam, 0)]
        filterNoLimit == [filter EXCEPT !.Limit = 0, !.Offset = 0]
    IN  [Data |-> SearchCards(s, filter, found).page,
         Total |-> Len(SearchCards(s, filterNoLimit, found).page),
         Limit |-> filter.Limit,
         Offset |-> filter.Offset]

\* The limit parameter of a request: absent, not a number, zero, negative,
\* below, at and above the cap.
LimitParams ==
    {EmptyString, <<"a", "b", "c">>, <<"0">>, <<"-", "1">>, <<"+", "5">>,
     <<"1", "0", "0">>, <<"1", "0", "1">>, <<"1", "5", "0">>}

OffsetParams == {EmptyString, <<"1">>, <<"-", "1">>}

\* The most cards a card file of the listing holds.
MaxListed == 101

\* A card file of n cards with distinct unique IDs.
ListFile(n) ==
    [i \in 1..n |-> [BaseCard EXCEPT !.UniqueID = [k \in 1..i |-> "c"]]]

\* Card files with no card, one card, more cards than the default limit, and
\* as many as the cap and more.
ListFiles ==
    {ListFile(n) : n \in {0, 1, DefaultLimit + 1} \cup (LimitCap..MaxListed)}

----------------------------------------------------------------------------
(* getClientIP                                                             *)

\* The addresses 10.0.0.0 .. 10.0.0.MaxAddr take part.
MaxAddr == 3

Addrs == 0..MaxAddr

\* The text of an address.
IPText(a) == <<"1", "0", ".", "0", ".", "0", ".", DecimalDigits[a + 1]>>

\* net.ParseIP: the address a text denotes, if it denotes one.
ParseIP(str) ==
    IF \E a \in Addrs : IPText(a) = str
    THEN [ok |-> TRUE, ip |-> CHOOSE a \in Addrs : IPText(a) = str]
    ELSE [ok |-> FALSE, ip |-> 0]

\* The trusted-proxy ranges that can be configured: the aligned blocks of one,
\* two and four addresses.
CIDRs == {[base |-> b, size |-> s] : b \in Addrs, s \in {1, 2, 4}} \cap
         {c \in [base : Addrs, size : {1, 2, 4}] : c.base % c.size = 0}

\* (*net.IPNet).Contains: the address masked to the block is the block's base;
\* a nil IP is in no block.
CIDRContains(cidr, parsed) ==
    parsed.ok /\ (parsed.ip \div cidr.size) * cidr.size = cidr.base

\* strings.Index(str, ch) for a one-character ch: the 0-based position of its
\* first occurrence, -1 if there is none.
IndexOf(str, ch) ==
    IF \E k \in 1..Len(str) : str[k] = ch
    THEN (CHOOSE k \in 1..Len(str) : str[k] = ch /\ \A m \in 1..(k - 1) : str[m] # ch) - 1
    ELSE 0 - 1

\* The 1-based position of the last occurrence of ch in str, 0 if there is none.
LastPosOf(str, ch) ==
    IF \E k \in 1..Len(str) : str[k] = ch
    THEN CHOOSE k \in 1..Len(str) : str[k] = ch /\ \A m \in (k + 1)..Len(str) : str[m] # ch
    ELSE 0

\* strings.TrimSpace
RECURSIVE TrimSpace(_)
TrimSpace(str) ==
    IF str = << >> THEN str
    ELSE IF Head(str) = " " THEN TrimSpace(Tail(str))
    ELSE IF str[Len(str)] = " " THEN TrimSpace(SubSeq(str, 1, Len(str) - 1))
    ELSE str

\* net.SplitHostPort for an IPv4 address: the text before the last colon is the
\* host; without a colon it is an error (missing port).
SplitHostPort(addr) ==
    IF LastPosOf(addr, ":") = 0 THEN [err |-> TRUE, host |-> EmptyString]
    ELSE [err |-> FALSE, host |-> SubSeq(addr, 1, LastPosOf(addr, ":") - 1)]

\* The remote IP of getClientIP: the host of r.RemoteAddr, or r.RemoteAddr as
\* it is when it cannot be split.
RemoteIP(r) ==
    IF SplitHostPort(r.RemoteAddr).err THEN r.RemoteAddr
    ELSE SplitHostPort(r.RemoteAddr).host

\* A proxy test that trusts every remote address.
TrustedAlways(remoteIP, proxies) == TRUE

\* The trusted flag of getClientIP: the remote IP lies in a configured block.
Trusted(remoteIP, proxies) ==
    /\ proxies # {}
    /\ \E cidr \in proxies : CIDRContains(cidr, ParseIP(remoteIP))

\* The first IP of an X-Forwarded-For chain.
FirstForwarded(xff) ==
    IF IndexOf(xff, ",") # 0 - 1
    THEN TrimSpace(SubSeq(xff, 1, IndexOf(xff, ",")))
    ELSE TrimSpace(xff)

\* getClientIP
getClientIP(r, proxies) ==
    IF Trusted(RemoteIP(r), proxies) /\ r.XForwardedFor # EmptyString
    THEN FirstForwarded(r.XForwardedFor)
    ELSE IF Trusted(RemoteIP(r), proxies) /\ r.XRealIP # EmptyString
    THEN TrimSpace(r.XRealIP)
    ELSE RemoteIP(r)

\* The values a client may put into X-Forwarded-For: none, one address, one
\* address with spaces around it, a chain of an address and the next one.
ForwardedValues ==
    {EmptyString}
    \cup {IPText(a) : a \in Addrs}
    \cup {<<" ">> \o IPText(a) \o <<" ">> : a \in Addrs}
    \cup {IPText(a) \o <<",", " ">> \o IPText((a + 1) % (MaxAddr + 1)) : a \in Addrs}

\* The values a client may put into X-Real-IP.
RealIPValues == {EmptyString} \cup {IPText(a) : a \in Addrs}

\* The remote address of the connection from address a: with a port, or the
\* bare address.
RemoteAddrs(a) == {IPText(a) \o <<":", "8", "0">>, IPText(a)}

\* The requests: the connection's address and the two headers.
Requests ==
    {[remote |-> a, RemoteAddr |-> ra, XForwardedFor |-> xff, XRealIP |-> xri] :
        a \in Addrs, ra \in UNION {RemoteAddrs(b) : b \in Addrs},
        xff \in ForwardedValues, xri \in RealIPValues}
    \cap {r \in [remote : Addrs, RemoteAddr : UNION {RemoteAddrs(b) : b \in Addrs},
                 XForwardedFor : ForwardedValues, XRealIP : RealIPValues] :
             r.RemoteAddr \in RemoteAddrs(r.remote)}

\* The TRUSTED_PROXIES configurations: none, one block or two.
ProxyConfigs == {p \in SUBSET CIDRs : Cardinality(p) <= 2}

----------------------------------------------------------------------------
(* rateLimiter                                                             *)

\* The largest RATE_LIMIT_RPS that takes part.
MaxRPS == 2

\* The clock advances in steps of 1/TicksPerSecond of a second.
TicksPerSecond == 2

\* config.RateLimitRPS: LoadConfig starts from 100 and takes RATE_LIMIT_RPS
\* only when it is positive.
RPSValues == 1..MaxRPS

\* The HTTP server serves each request on its own goroutine: two requests are
\* under way at the same time.
Goroutines == {1, 2}

\* The addresses of the two clients.
ClientAddrs == {0, 1}

\* The client IPs of the requests: getClientIP of a request that comes
\* straight from the client's address, no proxy being trusted.
ClientIPs ==
    {getClientIP([remote |-> a, RemoteAddr |-> IPText(a) \o <<":", "8", "0">>,
                  XForwardedFor |-> EmptyString, XRealIP |-> EmptyString], {}) :
        a \in ClientAddrs}

Min(a, b) == IF a <= b THEN a ELSE b

\* now.Sub(t), as far as the limiter tells durations apart: the ticks up to
\* one second (a second refills a bucket completely, so longer durations
\* refill the same), and whether it is more than the five minutes after
\* which cleanup deletes a bucket.
Durations == {d \in [ticks : 0..TicksPerSecond, idle : BOOLEAN] :
                 d.idle => d.ticks = TicksPerSecond}

\* now.Sub(now)
NoTime == [ticks |-> 0, idle |-> FALSE]

\* Whether d more ticks can take a duration beyond five minutes.
CanGoIdle(dur, d) == ~dur.idle /\ dur.ticks + d >= TicksPerSecond

\* A duration after d more ticks; long tells whether that takes it beyond
\* five minutes, which only a duration of a second or more can be.
Later(dur, d, long) ==
    [ticks |-> Min(dur.ticks + d, TicksPerSecond),
     idle  |-> dur.idle \/ (long /\ CanGoIdle(dur, d))]

\* Tokens are counted in 1/TicksPerSecond of a token, so that
\* elapsed * rps is a whole number of them.
OneToken == TicksPerSecond

\* A new bucket that holds all rps tokens after its first request.
NewBucketTokensFull(rps) == rps * OneToken

\* float64(rl.rps) - 1: the tokens of a new bucket, its first request served.
NewBucketTokens(rps) == (rps - 1) * OneToken

\* bucket.tokens += elapsed * rps, capped at rps
Refill(tokens, elapsed, rps) == Min(tokens + elapsed * rps, rps * OneToken)

\* A mutex that never blocks.
CanLockAlways(mu) == TRUE

\* rl.mu.Lock() returns only when the mutex is unlocked.
CanLock(mu) == ~mu

\* newRateLimiter(rps)
newRateLimiter(rps) == [rps |-> rps, mu |-> FALSE, clients |-> EmptyMap]

\* The locals of allow after `bucket, exists := rl.clients[ip]` and the
\* computation of elapsed.
NoBucket == [exists |-> FALSE, tokens |-> 0, elapsed |-> 0]

\* A goroutine that serves no request.
NoRequest ==
    [pc |-> "idle", ip |-> EmptyString, bucket |-> NoBucket, since |-> NoTime,
     peers |-> 0, allowed |-> FALSE, count |-> 0, status |-> 0, handled |-> FALSE]

\* No request allowed or rejected at this instant.
EmptyWindow == [ip \in ClientIPs |-> [allowed |-> 0, rejected |-> FALSE]]

\* The outcome of allow for the request r on the limiter rl: the result and
\* the clients map. The bucket is written through the pointer read before, so
\* a bucket deleted from the map in between stays deleted.
allow(rl, r) ==
    IF ~r.bucket.exists
    THEN [ok |-> TRUE,
          clients |-> MapSet(rl.clients, r.ip,
                             [tokens |-> NewBucketTokens(rl.rps), lastSeen |-> r.since])]
    ELSE LET tokens == Refill(r.bucket.tokens, r.bucket.elapsed, rl.rps)
             ok == tokens >= OneToken
             bucket == [tokens |-> IF ok THEN tokens - OneToken ELSE tokens,
                        lastSeen |-> r.since]
         IN  [ok |-> ok,
              clients |-> IF r.ip \in DOMAIN rl.clients
                          THEN [rl.clients EXCEPT ![r.ip] = bucket]
                          ELSE rl.clients]

\* The clients map after the loop of cleanup.
Swept(clients) ==
    [ip \in {k \in DOMAIN clients : ~clients[k].lastSeen.idle} |-> clients[ip]]

----------------------------------------------------------------------------
(* The process: load once, then answer queries                             *)

\* No rate limiter has been made.
NoLimiter == [rps |-> 0, mu |-> FALSE, clients |-> << >>]

NoCall == [made |-> FALSE, filter |-> ZeroFilter, page |-> << >>, total |-> 0]

NoWalk == [active |-> FALSE, done |-> FALSE, acc |-> << >>]

\* No lookup call is in progress.
NoLookup == [made |-> FALSE, op |-> "", arg |-> EmptyString, result |-> << >>]

NoLegality ==
    [made |-> FALSE, card |-> ZeroCard, format |-> EmptyString,
     result |-> UnknownFormatLegality(EmptyString)]

Init ==
    /\ phase = "start"
    /\ data \in {WithIDs(file) : file \in CardFiles}
    /\ broken \in SUBSET Streams
    /\ store = NilStore
    /\ err = NilError
    /\ call = NoCall
    /\ walk = NoWalk
    /\ lookup = NoLookup
    /\ leg = NoLegality
    /\ limiter = NoLimiter
    /\ requests = << >>
    /\ window = << >>
    /\ cleanup = FALSE

\* main calls NewStore: it reads the files and returns a store or an error, and
\* main exits on an error.
NewStore ==
    /\ phase = "start"
    /\ LET r == NewStoreOf(data, broken)
       IN  /\ store' = r.store
           /\ err' = r.err
           /\ phase' = AfterNewStore(r.err)
    /\ data' = << >>
    /\ UNCHANGED <<broken, call, walk, lookup, leg,
                 limiter, requests, window, cleanup>>

\* srv.Run(): the server starts to listen and to serve requests.
Run ==
    /\ phase = "loaded"
    /\ phase' = "ready"
    /\ UNCHANGED <<data, broken, store, err, call, walk, lookup, leg,
                 limiter, requests, window, cleanup>>

\* One SearchCards call of a request handler.
SearchCardsCall ==
    /\ phase = "ready"
    /\ ~call.made
    /\ ~lookup.made
    /\ \E filter \in Filters : \E found \in KeywordRange(store, filter) :
           LET r == SearchCards(store, filter, found)
           IN  call' = [made |-> TRUE, filter |-> filter, page |-> r.page, total |-> r.total]
    /\ walk' = NoWalk
    /\ UNCHANGED <<phase, data, broken, store, err, lookup, leg,
                 limiter, requests, window, cleanup>>

\* A client starts to read a result page by page: the call at offset 0.
WalkFirst ==
    /\ phase = "ready"
    /\ ~call.made
    /\ ~lookup.made
    /\ \E filter \in Filters : \E found \in KeywordRange(store, filter) :
           /\ filter.Limit > 0
           /\ filter.Offset = 0
           /\ LET r == SearchCards(store, filter, found)
              IN  /\ call' = [made |-> TRUE, filter |-> filter, page |-> r.page, total |-> r.total]
                  /\ walk' = [active |-> TRUE, done |-> Len(r.page) < filter.Limit, acc |-> r.page]
    /\ UNCHANGED <<phase, data, broken, store, err, lookup, leg,
                 limiter, requests, window, cleanup>>

\* The client asks for the next page: the same filter, offset raised by limit.
WalkNext ==
    /\ walk.active
    /\ ~walk.done
    /\ LET filter == [call.filter EXCEPT !.Offset = @ + call.filter.Limit]
       IN  \E found \in KeywordRange(store, filter) :
               LET r == SearchCards(store, filter, found)
               IN  /\ call' = [made |-> TRUE, filter |-> filter, page |-> r.page, total |-> r.total]
                   /\ walk' = [active |-> TRUE, done |-> Len(r.page) < filter.Limit,
                               acc |-> walk.acc \o r.page]
    /\ UNCHANGED <<phase, data, broken, store, err, lookup, leg,
                 limiter, requests, window, cleanup>>

\* The handler returns: the next request starts from the published store alone.
Return ==
    /\ call.made \/ lookup.made
    /\ call' = NoCall
    /\ walk' = NoWalk
    /\ lookup' = NoLookup
    /\ UNCHANGED <<phase, data, broken, store, err, leg,
                 limiter, requests, window, cleanup>>

\* One GetCardsInSet call of a request handler.
GetCardsInSetCall ==
    /\ phase = "ready"
    /\ ~call.made
    /\ ~lookup.made
    /\ \E setID \in SetArgs :
         /\ lookup' = [made |-> TRUE, op |-> "GetCardsInSet", arg |-> setID,
                       result |-> GetCardsInSet(store, setID)]
         /\ store' = [store EXCEPT
                         !.CardsBySetID = MapAfterIndex(@, ToUpper(setID))]
    /\ UNCHANGED <<phase, data, broken, err, call, walk, leg,
                 limiter, requests, window, cleanup>>

\* One GetCardByID call of a request handler.
GetCardByIDCall ==
    /\ phase = "ready"
    /\ ~call.made
    /\ ~lookup.made
    /\ \E id \in IDArgs :
         /\ lookup' = [made |-> TRUE, op |-> "GetCardByID", arg |-> id,
                       result |-> GetCardByID(store, id)]
         /\ store' = [store EXCEPT !.CardsByID = MapAfterIndex(@, id)]
    /\ UNCHANGED <<phase, data, broken, err, call, walk, leg,
                 limiter, requests, window, cleanup>>

\* One GetCardsByName call of a request handler.
GetCardsByNameCall ==
    /\ phase = "ready"
    /\ ~call.made
    /\ ~lookup.made
    /\ \E name \in NameArgs :
         /\ lookup' = [made |-> TRUE, op |-> "GetCardsByName", arg |-> name,
                       result |-> GetCardsByName(store, name)]
         /\ store' = [store EXCEPT
                         !.CardsByName = MapAfterIndex(@, ToLower(name))]
    /\ UNCHANGED <<phase, data, broken, err, call, walk, leg,
                 limiter, requests, window, cleanup>>

\* One GetSetByID call of a request handler.
GetSetByIDCall ==
    /\ phase = "ready"
    /\ ~call.made
    /\ ~lookup.made
    /\ \E id \in SetArgs :
         /\ lookup' = [made |-> TRUE, op |-> "GetSetByID", arg |-> id,
                       result |-> GetSetByID(store, id)]
         /\ store' = [store EXCEPT !.SetsByID = MapAfterIndex(@, ToUpper(id))]
    /\ UNCHANGED <<phase, data, broken, err, call, walk, leg,
                 limiter, requests, window, cleanup>>

\* One GetKeywordByName call of a request handler.
GetKeywordByNameCall ==
    /\ phase = "ready"
    /\ ~call.made
    /\ ~lookup.made
    /\ \E name \in KeywordArgs :
         /\ lookup' = [made |-> TRUE, op |-> "GetKeywordByName", arg |-> name,
                       result |-> GetKeywordByName(store, name)]
         /\ store' = [store EXCEPT
                         !.KeywordsByName = MapAfterIndex(@, ToLower(name))]
    /\ UNCHANGED <<phase, data, broken, err, call, walk, leg,
                 limiter, requests, window, cleanup>>

\* One SearchSets call of a request handler.
SearchSetsCall ==
    /\ phase = "ready"
    /\ ~call.made
    /\ ~lookup.made
    /\ \E filter \in SetFilters :
         lookup' = [made |-> TRUE, op |-> "SearchSets", arg |-> filter,
                    result |-> SearchSets(store, filter)]
    /\ UNCHANGED <<phase, data, broken, store, err, call, walk, leg,
                 limiter, requests, window, cleanup>>

\* One Stats call.
StatsCall ==
    /\ phase = "ready"
    /\ ~call.made
    /\ ~lookup.made
    /\ lookup' = [made |-> TRUE, op |-> "Stats", arg |-> EmptyString,
                  result |-> Stats(store)]
    /\ UNCHANGED <<phase, data, broken, store, err, call, walk, leg,
                 limiter, requests, window, cleanup>>

Next ==
    \/ NewStore
    \/ Run
    \/ SearchCardsCall
    \/ WalkFirst
    \/ WalkNext
    \/ GetCardsInSetCall
    \/ GetCardByIDCall
    \/ GetCardsByNameCall
    \/ GetSetByIDCall
    \/ GetKeywordByNameCall
    \/ SearchSetsCall
    \/ StatsCall
    \/ Return

Spec == Init /\ [][Next]_vars

\* The filters with legalIn set to a supported format: alone or with one other
\* predicate, with and without a limit.
LegalInFilters ==
    {[CardFilter(p, l, 0) EXCEPT !.LegalIn = format] :
        p \in {q \in Predicates : q.LegalIn = EmptyString /\ Cardinality(SetFields(q)) <= 1},
        l \in Limits,
        format \in {FormatBlitz, FormatCC, FormatCommoner, FormatLL,
                    FormatSilverAge, FormatUPF}}

\* A card file whose cards differ in legality.
LegalInInit ==
    /\ phase = "start"
    /\ data \in {WithIDs(file) : file \in LegalityFiles}
    /\ broken = {}
    /\ store = NilStore
    /\ err = NilError
    /\ call = NoCall
    /\ walk = NoWalk
    /\ lookup = NoLookup
    /\ leg = NoLegality
    /\ limiter = NoLimiter
    /\ requests = << >>
    /\ window = << >>
    /\ cleanup = FALSE

\* store.SearchCards(filter) with filter.LegalIn a supported format
SearchLegalInCall ==
    /\ phase = "ready"
    /\ ~call.made
    /\ ~lookup.made
    /\ \E filter \in LegalInFilters :
       \E found \in KeywordRange(store, filter) :
         LET r == SearchCards(store, filter, found)
         IN  call' = [made |-> TRUE, filter |-> filter,
                      page |-> r.page, total |-> r.total]
    /\ UNCHANGED <<phase, data, broken, store, err, walk, lookup, leg,
                 limiter, requests, window, cleanup>>

NextLegalIn == NewStore \/ Run \/ SearchLegalInCall \/ Return

SpecLegalIn == LegalInInit /\ [][NextLegalIn]_vars

\* The filters with a name: alone or combined with other predicates, with every
\* limit and offset.
NameFilters == {filter \in Filters : filter.Name # EmptyString}

\* A card file that loads.
NameInit ==
    /\ phase = "start"
    /\ data \in {WithIDs(file) : file \in CardFiles}
    /\ broken = {}
    /\ store = NilStore
    /\ err = NilError
    /\ call = NoCall
    /\ walk = NoWalk
    /\ lookup = NoLookup
    /\ leg = NoLegality
    /\ limiter = NoLimiter
    /\ requests = << >>
    /\ window = << >>
    /\ cleanup = FALSE

\* store.SearchCards(filter) with filter.Name set
SearchByNameCall ==
    /\ phase = "ready"
    /\ ~call.made
    /\ ~lookup.made
    /\ \E filter \in NameFilters :
       \E found \in KeywordRange(store, filter) :
         LET r == SearchCards(store, filter, found)
         IN  call' = [made |-> TRUE, filter |-> filter,
                      page |-> r.page, total |-> r.total]
    /\ UNCHANGED <<phase, data, broken, store, err, walk, lookup, leg,
                 limiter, requests, window, cleanup>>

NextName == NewStore \/ Run \/ SearchByNameCall \/ Return

SpecName == NameInit /\ [][NextName]_vars

\* A card file of the listing.
ListInit ==
    /\ phase = "start"
    /\ data \in ListFiles
    /\ broken = {}
    /\ store = NilStore
    /\ err = NilError
    /\ call = NoCall
    /\ walk = NoWalk
    /\ lookup = NoLookup
    /\ leg = NoLegality
    /\ limiter = NoLimiter
    /\ requests = << >>
    /\ window = << >>
    /\ cleanup = FALSE

\* GET /cards with a limit and an offset parameter
ListCardsCall ==
    /\ phase = "ready"
    /\ ~call.made
    /\ ~lookup.made
    /\ \E limitParam \in LimitParams, offsetParam \in OffsetParams :
       \E found \in KeywordRange(store, ZeroFilter) :
         lookup' = [made |-> TRUE, op |-> "ListCards",
                    arg |-> [limit |-> limitParam, offset |-> offsetParam],
                    result |-> ListCards(store, limitParam, offsetParam, found)]
    /\ UNCHANGED <<phase, data, broken, store, err, call, walk, leg,
                 limiter, requests, window, cleanup>>

NextList == NewStore \/ Run \/ ListCardsCall \/ Return

SpecListCards == ListInit /\ [][NextList]_vars

\* A request arrives at a router with some trusted-proxy configuration.
ClientIPInit ==
    /\ phase = "ready"
    /\ data = << >>
    /\ broken = {}
    /\ store = NewStoreOf(<< >>, {}).store
    /\ err = NilError
    /\ call = NoCall
    /\ walk = NoWalk
    /\ lookup \in {[NoLookup EXCEPT !.arg = [request |-> r, proxies |-> p]] :
                      r \in Requests, p \in ProxyConfigs}
    /\ leg = NoLegality
    /\ limiter = NoLimiter
    /\ requests = << >>
    /\ window = << >>
    /\ cleanup = FALSE

\* getClientIP(r, config)
GetClientIPCall ==
    /\ phase = "ready"
    /\ ~lookup.made
    /\ lookup' = [made |-> TRUE, op |-> "getClientIP", arg |-> lookup.arg,
                  result |-> getClientIP(lookup.arg.request, lookup.arg.proxies)]
    /\ UNCHANGED <<phase, data, broken, store, err, call, walk, leg,
                 limiter, requests, window, cleanup>>

SpecClientIP == ClientIPInit /\ [][GetClientIPCall]_vars

\* A router with a fresh rate limiter, no request under way.
RateLimitInit ==
    /\ phase = "ready"
    /\ data = << >>
    /\ broken = {}
    /\ store = NewStoreOf(<< >>, {}).store
    /\ err = NilError
    /\ call = NoCall
    /\ walk = NoWalk
    /\ lookup = NoLookup
    /\ leg = NoLegality
    /\ limiter \in {newRateLimiter(rps) : rps \in RPSValues}
    /\ requests = [g \in Goroutines |-> NoRequest]
    /\ window = EmptyWindow
    /\ cleanup = FALSE

\* A request arrives: ip := getClientIP(r, config)
Arrive(g) ==
    /\ requests[g].pc \in {"idle", "done"}
    /\ \E ip \in ClientIPs :
         requests' = [requests EXCEPT ![g] = [NoRequest EXCEPT !.pc = "arrived", !.ip = ip]]
    /\ UNCHANGED <<phase, data, broken, store, err, call, walk, lookup, leg,
                   limiter, window, cleanup>>

\* allow: rl.mu.Lock()
AllowLock(g) ==
    /\ requests[g].pc = "arrived"
    /\ CanLock(limiter.mu)
    /\ limiter' = [limiter EXCEPT !.mu = TRUE]
    /\ requests' = [requests EXCEPT ![g].pc = "locked"]
    /\ UNCHANGED <<phase, data, broken, store, err, call, walk, lookup, leg,
                   window, cleanup>>

\* allow: now := time.Now(); bucket, exists := rl.clients[ip]
AllowRead(g) ==
    /\ requests[g].pc = "locked"
    /\ LET ip == requests[g].ip
       IN  requests' = [requests EXCEPT
               ![g].pc = "read",
               ![g].since = NoTime,
               ![g].bucket =
                   IF ip \in DOMAIN limiter.clients
                   THEN [exists |-> TRUE, tokens |-> limiter.clients[ip].tokens,
                         elapsed |-> limiter.clients[ip].lastSeen.ticks]
                   ELSE NoBucket]
    /\ UNCHANGED <<phase, data, broken, store, err, call, walk, lookup, leg,
                   limiter, window, cleanup>>

\* allow: the rest of the body, the deferred rl.mu.Unlock() and the return.
\* A request allowed counts for the instant of its now.
AllowWrite(g) ==
    /\ requests[g].pc = "read"
    /\ window[requests[g].ip].allowed <= MaxRPS
    /\ LET r == requests[g]
           out == allow(limiter, r)
           fresh == r.since = NoTime
           before == IF fresh THEN window[r.ip].allowed ELSE r.peers
       IN  /\ limiter' = [limiter EXCEPT !.clients = out.clients, !.mu = FALSE]
           /\ requests' = [requests EXCEPT
                  ![g].pc = "decided",
                  ![g].bucket = NoBucket,
                  ![g].since = NoTime,
                  ![g].peers = 0,
                  ![g].allowed = out.ok,
                  ![g].count = IF out.ok THEN before + 1 ELSE before]
           /\ window' =
                  IF ~fresh THEN window
                  ELSE IF out.ok THEN [window EXCEPT ![r.ip].allowed = @ + 1]
                  ELSE [window EXCEPT ![r.ip].rejected = TRUE]
    /\ UNCHANGED <<phase, data, broken, store, err, call, walk, lookup, leg, cleanup>>

\* rateLimitMiddleware: next.ServeHTTP(w, r)
Serve(g) ==
    /\ requests[g].pc = "decided"
    /\ requests[g].allowed
    /\ requests' = [requests EXCEPT ![g] = [NoRequest EXCEPT !.pc = "done",
                                                             !.status = 200,
                                                             !.handled = TRUE]]
    /\ UNCHANGED <<phase, data, broken, store, err, call, walk, lookup, leg,
                   limiter, window, cleanup>>

\* rateLimitMiddleware: w.WriteHeader(http.StatusTooManyRequests); return
TooManyRequests(g) ==
    /\ requests[g].pc = "decided"
    /\ ~requests[g].allowed
    /\ requests' = [requests EXCEPT ![g] = [NoRequest EXCEPT !.pc = "done",
                                                             !.status = 429]]
    /\ UNCHANGED <<phase, data, broken, store, err, call, walk, lookup, leg,
                   limiter, window, cleanup>>

\* cleanup: the ticker fires, rl.mu.Lock()
CleanupLock ==
    /\ ~cleanup
    /\ CanLock(limiter.mu)
    /\ limiter' = [limiter EXCEPT !.mu = TRUE]
    /\ cleanup' = TRUE
    /\ UNCHANGED <<phase, data, broken, store, err, call, walk, lookup, leg,
                   requests, window>>

\* cleanup: the loop over rl.clients, rl.mu.Unlock()
CleanupSweep ==
    /\ cleanup
    /\ limiter' = [limiter EXCEPT !.clients = Swept(@), !.mu = FALSE]
    /\ cleanup' = FALSE
    /\ UNCHANGED <<phase, data, broken, store, err, call, walk, lookup, leg,
                   requests, window>>

\* Time passes: d ticks, which take the lastSeen of the buckets of long and the
\* now of the goroutines of held beyond five minutes.
\* Every lastSeen and every now a goroutine holds lies further back, and a new
\* instant begins.
Elapse ==
    \E d \in 1..TicksPerSecond :
      \E long \in SUBSET {ip \in DOMAIN limiter.clients :
                              CanGoIdle(limiter.clients[ip].lastSeen, d)},
         held \in SUBSET {g \in Goroutines : /\ requests[g].pc = "read"
                                             /\ CanGoIdle(requests[g].since, d)} :
        /\ limiter' = [limiter EXCEPT !.clients =
               [ip \in DOMAIN @ |->
                   [@[ip] EXCEPT !.lastSeen = Later(@, d, ip \in long)]]]
        /\ requests' =
               [g \in Goroutines |->
                   IF requests[g].pc # "read" THEN requests[g]
                   ELSE [requests[g] EXCEPT
                            !.since = Later(@, d, g \in held),
                            !.peers = IF requests[g].since = NoTime
                                      THEN window[requests[g].ip].allowed ELSE @]]
        /\ window' = EmptyWindow
        /\ UNCHANGED <<phase, data, broken, store, err, call, walk, lookup, leg, cleanup>>

NextRateLimit ==
    \/ \E g \in Goroutines : Arrive(g)
    \/ \E g \in Goroutines : AllowLock(g)
    \/ \E g \in Goroutines : AllowRead(g)
    \/ \E g \in Goroutines : AllowWrite(g)
    \/ \E g \in Goroutines : Serve(g)
    \/ \E g \in Goroutines : TooManyRequests(g)
    \/ CleanupLock
    \/ CleanupSweep
    \/ Elapse

SpecRateLimit == RateLimitInit /\ [][NextRateLimit]_vars

\* The formats a caller may pass to GetLegality: the six supported ones, the
\* empty string and an unsupported one.
FormatArgs ==
    {FormatBlitz, FormatCC, FormatCommoner, FormatLL, FormatSilverAge, FormatUPF,
     EmptyString, UnknownFormat}

\* A card with any combination of flags, before GetLegality is called on it.
LegalityInit ==
    /\ phase = "start"
    /\ data = << >>
    /\ broken = {}
    /\ store = NilStore
    /\ err = NilError
    /\ call = NoCall
    /\ walk = NoWalk
    /\ lookup = NoLookup
    /\ leg \in {[NoLegality EXCEPT !.card = c] : c \in FlagCards}
    /\ limiter = NoLimiter
    /\ requests = << >>
    /\ window = << >>
    /\ cleanup = FALSE

\* card.GetLegality(format)
GetLegalityCall ==
    /\ ~leg.made
    /\ \E format \in FormatArgs :
         leg' = [made |-> TRUE, card |-> leg.card, format |-> format,
                 result |-> GetLegality(leg.card, format)]
    /\ UNCHANGED <<phase, data, broken, store, err, call, walk, lookup,
                 limiter, requests, window, cleanup>>

SpecLegality == LegalityInit /\ [][GetLegalityCall]_vars

----------------------------------------------------------------------------
(* Reference definitions of the properties                                 *)

Formats == {FormatBlitz, FormatCC, FormatCommoner, FormatLL, FormatSilverAge, FormatUPF}

\* Every non-empty predicate of the filter, applied to one card: name, keyword
\* and text by case-insensitive containment, type and pitch exactly, class and
\* set by case-insensitive equality, legalIn by GetLegality.
PassesAll(card, filter) ==
    /\ filter.Name # EmptyString => Contains(ToLower(card.Name), ToLower(filter.Name))
    /\ filter.Type # EmptyString => HasType(card, filter.Type)
    /\ filter.Class # EmptyString => EqualFold(GetClass(card), filter.Class)
    /\ filter.SetID # EmptyString =>
           \E j \in 1..Len(card.Printings) : EqualFold(card.Printings[j].SetID, filter.SetID)
    /\ filter.Pitch # EmptyString => card.Pitch = filter.Pitch
    /\ filter.Keyword # EmptyString =>
           \E j \in 1..Len(card.CardKeywords) :
               Contains(ToLower(card.CardKeywords[j]), ToLower(filter.Keyword))
    /\ filter.TextQuery # EmptyString =>
           Contains(ToLower(card.FunctionalTextPlain), ToLower(filter.TextQuery))
    /\ filter.LegalIn # EmptyString => GetLegality(card, filter.LegalIn).Legal

\* The brute-force scan of the whole Cards collection, in collection order.
FullScan(s, filter) == SelectSeq(AllCards(s), LAMBDA i : PassesAll(s.Cards[i], filter))

UniqueIDs(s, cards) == [k \in 1..Len(cards) |-> s.Cards[cards[k]].UniqueID]

\* What SearchCards returned to the last caller.
Returned == [page |-> call.page, total |-> call.total]

\* The last call asked for the whole result: no limit, no offset.
Unpaginated == call.made /\ call.filter.Limit = 0 /\ call.filter.Offset = 0

\* Every result another call with this filter can return.
Outcomes(filter) == {SearchCards(store, filter, found) : found \in KeywordRange(store, filter)}

----------------------------------------------------------------------------
(* Properties                                                              *)

\* C1: the unpaginated result of SearchCards is the same sequence of UniqueIDs as
\* a brute-force scan of Cards that applies every non-empty predicate.
C1_IndexEqualsFullScan ==
    Unpaginated =>
        UniqueIDs(store, call.page) = UniqueIDs(store, FullScan(store, call.filter))

\* C2: every card SearchCards returns satisfies every non-empty predicate of the
\* filter, also the predicates that did not choose the candidate index.
C2_ResultsPassEveryPredicate ==
    call.made =>
        \A k \in 1..Len(call.page) : PassesAll(store.Cards[call.page[k]], call.filter)

\* C3: the class filter is case-insensitive: any other casing of the class
\* string returns the same page and the same total.
C3_ClassCaseInsensitive ==
    (call.made /\ call.filter.Class # EmptyString) =>
        \A c \in FilterClasses :
            EqualFold(c, call.filter.Class) =>
                Outcomes([call.filter EXCEPT !.Class = c]) = {Returned}

\* C4: with only the keyword set, SearchCards returns, in collection order, every
\* card that has a card keyword containing it as a case-insensitive substring.
C4_KeywordFindsEveryCard ==
    (Unpaginated /\ SetFields(call.filter) = {"Keyword"}) =>
        call.page = SelectSeq(AllCards(store), LAMBDA i :
            \E j \in 1..Len(store.Cards[i].CardKeywords) :
                Contains(ToLower(store.Cards[i].CardKeywords[j]),
                         ToLower(call.filter.Keyword)))

\* C5: SearchCards is deterministic: another call with the same filter on the
\* same store returns the same page and the same total.
C5_Deterministic ==
    call.made => Outcomes(call.filter) = {Returned}

\* C6: the pages at offsets 0, limit, 2*limit, ... up to the first short page,
\* concatenated, are the unpaginated result of the same filter.
C6_PagesReconstructResult ==
    walk.done =>
        \A r \in Outcomes([call.filter EXCEPT !.Limit = 0, !.Offset = 0]) :
            r.page = walk.acc

\* C7: an offset at or beyond the number of matching cards returns an empty page
\* and the total that offset 0 returns.
C7_OffsetOutOfBounds ==
    (call.made /\ call.filter.Offset >= Len(FullScan(store, call.filter))) =>
        /\ call.page = << >>
        /\ \A r \in Outcomes([call.filter EXCEPT !.Offset = 0]) : r.total = call.total

\* C8: total is the number of cards that pass all predicates, whatever the limit
\* and the offset.
C8_TotalCountsMatches ==
    call.made => call.total = Len(FullScan(store, call.filter))

C10_NegativeOffsetIsZero ==
    (call.made /\ call.filter.Offset < 0) =>
        Outcomes([call.filter EXCEPT !.Offset = 0]) = {Returned}

----------------------------------------------------------------------------
(* Legality                                                                *)

\* The legality table, format by format: the flags that must be set and the
\* flags that must be clear for a card to be legal.
TableLegal(c, format) ==
    CASE format = FormatBlitz ->
           c.BlitzLegal /\ ~c.BlitzBanned /\ ~c.BlitzSuspended /\ ~c.BlitzLivingLegend
      [] format = FormatCC ->
           c.CCLegal /\ ~c.CCBanned /\ ~c.CCSuspended /\ ~c.CCLivingLegend
      [] format = FormatCommoner ->
           c.CommonerLegal /\ ~c.CommonerBanned /\ ~c.CommonerSuspended
      [] format = FormatLL ->
           c.LLLegal /\ ~c.LLBanned /\ ~c.LLRestricted
      [] format = FormatSilverAge ->
           c.SilverAgeLegal /\ ~c.SilverAgeBanned
      [] format = FormatUPF ->
           ~c.UPFBanned

\* C11: for each of the six formats and every combination of flag values,
\* GetLegality(format).Legal equals the format's row of the legality table.
C11_LegalFollowsTable ==
    (leg.made /\ leg.format \in Formats)
        => leg.result.Legal = TableLegal(leg.card, leg.format)

\* A card on the Living Legend restricted list, otherwise legal there, was asked
\* about Living Legend and found not legal.
C11_RestrictedCardAsked ==
    /\ leg.made
    /\ leg.format = FormatLL
    /\ leg.card.LLLegal /\ ~leg.card.LLBanned /\ leg.card.LLRestricted
    /\ ~leg.result.Legal

\* C12: the Ultimate Pit Fight record is the one built from UPFBanned alone, so
\* two cards that agree on UPFBanned get the same record whatever their other
\* flags, and the card is legal exactly when UPFBanned is false.
C12_UPFDependsOnlyOnUPFBanned ==
    (leg.made /\ leg.format = FormatUPF)
        => /\ leg.result =
                GetLegality([ZeroCard EXCEPT !.UPFBanned = leg.card.UPFBanned],
                            FormatUPF)
           /\ leg.result.Legal = ~leg.card.UPFBanned

\* A card without any base-legal flag, banned in Blitz and Classic Constructed
\* but not in Ultimate Pit Fight, was asked about Ultimate Pit Fight.
C12_OtherFlagsSetUPFAsked ==
    /\ leg.made
    /\ leg.format = FormatUPF
    /\ ~leg.card.UPFBanned
    /\ ~leg.card.CCLegal /\ leg.card.CCBanned /\ leg.card.BlitzBanned
    /\ leg.result.Legal

\* The raw flags of a card that are relevant to a format; a flag the format does
\* not have is false.
RawLivingLegend(c, format) ==
    CASE format = FormatBlitz -> c.BlitzLivingLegend
      [] format = FormatCC -> c.CCLivingLegend
      [] OTHER -> FALSE

RawBanned(c, format) ==
    CASE format = FormatBlitz -> c.BlitzBanned
      [] format = FormatCC -> c.CCBanned
      [] format = FormatCommoner -> c.CommonerBanned
      [] format = FormatLL -> c.LLBanned
      [] format = FormatSilverAge -> c.SilverAgeBanned
      [] format = FormatUPF -> c.UPFBanned

RawSuspended(c, format) ==
    CASE format = FormatBlitz -> c.BlitzSuspended
      [] format = FormatCC -> c.CCSuspended
      [] format = FormatCommoner -> c.CommonerSuspended
      [] OTHER -> FALSE

RawRestricted(c, format) ==
    CASE format = FormatLL -> c.LLRestricted
      [] OTHER -> FALSE

\* C13: for each of the six formats the record carries the format it was asked
\* about and the card's raw LivingLegend, Banned, Suspended and Restricted flags
\* of that format, and false for a flag the format does not have.
C13_RecordCarriesRawFlags ==
    (leg.made /\ leg.format \in Formats)
        => /\ leg.result.Format = leg.format
           /\ leg.result.LivingLegend = RawLivingLegend(leg.card, leg.format)
           /\ leg.result.Banned = RawBanned(leg.card, leg.format)
           /\ leg.result.Suspended = RawSuspended(leg.card, leg.format)
           /\ leg.result.Restricted = RawRestricted(leg.card, leg.format)

\* A card that is a living legend in Classic Constructed and suspended in
\* Commoner was asked about Commoner.
C13_CommonerSuspendedAsked ==
    /\ leg.made
    /\ leg.format = FormatCommoner
    /\ leg.card.CCLivingLegend /\ leg.card.BlitzLivingLegend
    /\ leg.card.CommonerSuspended
    /\ leg.result.Suspended /\ ~leg.result.LivingLegend

\* C15: for every supported format f and whatever the other filter fields, every
\* card in the result of SearchCards with legalIn = f has GetLegality(f).Legal
\* true.
C15_ResultsAreLegal ==
    (call.made /\ call.filter.LegalIn \in Formats)
        => \A k \in 1..Len(call.page) :
               GetLegality(store.Cards[call.page[k]], call.filter.LegalIn).Legal

\* A search with legalIn set returned a card and left out a card that the rest
\* of the filter lets through.
C15_IllegalCardLeftOut ==
    /\ call.made
    /\ call.filter.LegalIn \in Formats
    /\ call.filter.Limit = 0
    /\ call.page # << >>
    /\ \E i \in 1..Len(store.Cards) :
         /\ ~GetLegality(store.Cards[i], call.filter.LegalIn).Legal
         /\ PassesAll(store.Cards[i], [call.filter EXCEPT !.LegalIn = EmptyString])

\* C16: every card returned by SearchCards with class = c, alone or combined
\* with other predicates, has GetClass() equal to c.
C16_ResultsHaveTheClass ==
    (call.made /\ call.filter.Class # EmptyString)
        => \A k \in 1..Len(call.page) :
               GetClass(store.Cards[call.page[k]]) = call.filter.Class

\* A search by class combined with another predicate returned a card while the
\* store holds a card that carries the class as a type tag but is of another
\* class.
C16_ClassSearchReturnedCards ==
    /\ call.made
    /\ call.filter.Class = ClassIce
    /\ Cardinality(SetFields(call.filter)) > 1
    /\ call.page # << >>
    /\ \E i \in 1..Len(store.Cards) :
         /\ HasType(store.Cards[i], ClassIce)
         /\ GetClass(store.Cards[i]) # ClassIce

\* C17: the name filter does not depend on the casing of the name.  For every
\* filter with a name, the same filter with another casing of the name has the
\* same possible results; when the name is the only predicate, the call with
\* the other casing returns exactly the page and total that were returned.
C17_NameCaseInsensitive ==
    (call.made /\ call.filter.Name # EmptyString)
        => \A n \in FilterNames \ {call.filter.Name} :
             EqualFold(n, call.filter.Name)
                => LET other == Outcomes([call.filter EXCEPT !.Name = n])
                   IN  /\ SetFields(call.filter) = {"Name"} => other = {Returned}
                       /\ other = Outcomes(call.filter)

\* A search by name alone, written in upper case, returned a card whose name is
\* written otherwise.
C17_UpperCaseNameFound ==
    /\ call.made
    /\ SetFields(call.filter) = {"Name"}
    /\ call.filter.Name = ToUpper(call.filter.Name)
    /\ call.page # << >>
    /\ \E k \in 1..Len(call.page) :
         ~Contains(store.Cards[call.page[k]].Name, call.filter.Name)

\* The position of the first occurrence of x in seq.
FirstOccurrence(seq, x) ==
    CHOOSE k \in 1..Len(seq) : seq[k] = x /\ \A j \in 1..(k - 1) : seq[j] # x

\* C18: GetCardsInSet(code) returns each card with at least one printing in the
\* set exactly once, in the order of the cards' first occurrences in the set's
\* index bucket, also when a card has several printings in the set.
C18_EachCardOnceInBucketOrder ==
    (lookup.made /\ lookup.op = "GetCardsInSet")
        => LET bucket == MapGet(store.CardsBySetID, ToUpper(lookup.arg))
               result == lookup.result
           IN  /\ \A i \in 1..Len(store.Cards) :
                    (\E j \in 1..Len(store.Cards[i].Printings) :
                        store.Cards[i].Printings[j].SetID = ToUpper(lookup.arg))
                    <=> Cardinality({k \in 1..Len(result) : result[k] = i}) = 1
               /\ \A k \in 1..Len(result) :
                    /\ result[k] \in 1..Len(store.Cards)
                    /\ \E b \in 1..Len(bucket) : bucket[b] = result[k]
                    /\ \A m \in 1..(k - 1) : result[m] # result[k]
               /\ \A k, m \in 1..Len(result) :
                    k < m => FirstOccurrence(bucket, result[k])
                                 < FirstOccurrence(bucket, result[m])

\* GetCardsInSet was called with a lower-case code on a store in which a card
\* has two printings in that set and a second card has one.
C18_TwoPrintingsInTheSet ==
    /\ lookup.made
    /\ lookup.op = "GetCardsInSet"
    /\ lookup.arg # ToUpper(lookup.arg)
    /\ Len(lookup.result) > 1
    /\ \E i \in 1..Len(store.Cards) :
         \E j, k \in 1..Len(store.Cards[i].Printings) :
            /\ j # k
            /\ store.Cards[i].Printings[j].SetID = ToUpper(lookup.arg)
            /\ store.Cards[i].Printings[k].SetID = ToUpper(lookup.arg)

----------------------------------------------------------------------------
(* Loading and start-up                                                    *)

\* C19: loading is all-or-nothing: if any of the five streams (types, cards,
\* sets, keywords, abilities) fails, NewStore returns an error and no store at
\* all, however many streams were loaded before the failing one.
C19_AllOrNothing ==
    (phase # "start" /\ broken # {})
        => /\ err # NilError
           /\ store = NilStore

\* NewStore has returned after the last stream alone failed, the other four
\* having been loaded.
C19_LastStreamFailed ==
    /\ phase # "start"
    /\ broken = {"abilities"}
    /\ err = "abilities"

\* C20: no request is served before NewStore has returned successfully: the
\* server listens and a call is made only with a nil error and the store
\* NewStore returned; when NewStore fails the process has exited, is not
\* listening and serves nothing.
C20_ServesOnlyAfterLoad ==
    /\ (phase = "ready" \/ call.made \/ walk.active \/ lookup.made)
          => /\ phase = "ready"
             /\ err = NilError
             /\ broken = {}
             /\ store # NilStore
    /\ err # NilError
          => /\ phase = "exited"
             /\ ~call.made /\ ~walk.active /\ ~lookup.made

\* A request is being served by the listening server.
C20_RequestServed ==
    /\ phase = "ready"
    /\ call.made
    /\ call.page # << >>
    /\ err = NilError

----------------------------------------------------------------------------
(* Lookups                                                                 *)

\* C22: GetCardsByName(n) returns exactly the loaded cards whose name equals n
\* ignoring case (the whole name, not a part of it), in source order; so two
\* casings of a name return the same list.
C22_CardsOfTheNameInSourceOrder ==
    (lookup.made /\ lookup.op = "GetCardsByName")
        => lookup.result =
               SelectSeq(AllCards(store),
                         LAMBDA i : EqualFold(store.Cards[i].Name, lookup.arg))

\* GetCardsByName was called with a name in upper case and returned two cards,
\* neither of which writes its name that way.
C22_TwoPitchesFound ==
    /\ lookup.made
    /\ lookup.op = "GetCardsByName"
    /\ lookup.arg = ToUpper(lookup.arg)
    /\ Len(lookup.result) > 1
    /\ \A k \in 1..Len(lookup.result) :
         store.Cards[lookup.result[k]].Name # lookup.arg

\* C23: GetSetByID is case-insensitive: for every loaded set with code s,
\* GetSetByID called with a casing of s returns that set.
C23_SetFoundInAnyCasing ==
    (lookup.made /\ lookup.op = "GetSetByID")
        => \A i \in 1..Len(store.Sets) :
               EqualFold(store.Sets[i].ID, lookup.arg) => lookup.result = i

\* GetSetByID was called with a lower-case code and returned the set whose code
\* is written in upper case.
C23_LowerCaseCodeFound ==
    /\ lookup.made
    /\ lookup.op = "GetSetByID"
    /\ lookup.arg # ToUpper(lookup.arg)
    /\ lookup.result # NilPtr
    /\ store.Sets[lookup.result].ID = ToUpper(lookup.arg)

\* The identifier of a lookup matches no loaded entity.
Absent(s, op, arg) ==
    CASE op = "GetCardByID" ->
           \A i \in 1..Len(s.Cards) : s.Cards[i].UniqueID # arg
      [] op = "GetSetByID" ->
           \A i \in 1..Len(s.Sets) : ~EqualFold(s.Sets[i].ID, arg)
      [] op = "GetKeywordByName" ->
           \A i \in 1..Len(s.Keywords) : ~EqualFold(s.Keywords[i].Name, arg)
      [] op = "GetCardsByName" ->
           \A i \in 1..Len(s.Cards) : ~EqualFold(s.Cards[i].Name, arg)
      [] op = "GetCardsInSet" ->
           \A i \in 1..Len(s.Cards) : \A j \in 1..Len(s.Cards[i].Printings) :
               ~EqualFold(s.Cards[i].Printings[j].SetID, arg)
      [] OTHER -> FALSE

\* The value a lookup returns for nothing: nil from the single-entity lookups,
\* the empty list from the list lookups.
AbsentValue(op) ==
    IF op \in {"GetCardByID", "GetSetByID", "GetKeywordByName"} THEN NilPtr
    ELSE << >>

\* C24: a lookup of an absent key never fails: GetCardByID, GetSetByID and
\* GetKeywordByName return nil and GetCardsByName and GetCardsInSet return an
\* empty list for an identifier that matches no loaded entity, and the call
\* leaves the store as it was.
C24_AbsentKeyGivesAbsentValue ==
    [][(~lookup.made /\ lookup'.made /\ Absent(store, lookup'.op, lookup'.arg))
          => /\ lookup'.result = AbsentValue(lookup'.op)
             /\ store' = store]_vars

\* GetKeywordByName was called with a name that is only a part of a keyword's
\* name and returned nil.
C24_AbsentKeywordLookedUp ==
    /\ lookup.made
    /\ lookup.op = "GetKeywordByName"
    /\ Absent(store, lookup.op, lookup.arg)
    /\ lookup.result = NilPtr

\* C26: for every loaded card c, GetCardByID(c.UniqueID) returns c itself: the
\* ID index has exactly the loaded cards' unique IDs as keys, each mapped to
\* its own card.
C26_CardFoundByItsID ==
    /\ phase = "ready"
          => /\ DOMAIN store.CardsByID =
                    {store.Cards[i].UniqueID : i \in 1..Len(store.Cards)}
             /\ \A i \in 1..Len(store.Cards) :
                    GetCardByID(store, store.Cards[i].UniqueID) = i
    /\ (lookup.made /\ lookup.op = "GetCardByID")
          => \A i \in 1..Len(store.Cards) :
                 store.Cards[i].UniqueID = lookup.arg => lookup.result = i

\* GetCardByID was called with the ID of the second of two loaded cards and
\* returned it.
C26_SecondCardLookedUp ==
    /\ lookup.made
    /\ lookup.op = "GetCardByID"
    /\ Len(store.Cards) > 1
    /\ lookup.result = Len(store.Cards)
    /\ store.Cards[lookup.result].UniqueID = lookup.arg

\* One set against the three predicates of a set filter.
PassesSetFilter(set, filter) ==
    /\ filter.Name # EmptyString => Contains(ToLower(set.Name), ToLower(filter.Name))
    /\ filter.ID # EmptyString => Contains(ToLower(set.ID), ToLower(filter.ID))
    /\ filter.Query # EmptyString =>
           \/ Contains(ToLower(set.Name), ToLower(filter.Query))
           \/ Contains(ToLower(set.ID), ToLower(filter.Query))

\* C25: SearchSets returns, in collection order, exactly the sets that satisfy
\* all the non-empty predicates at once: name a case-insensitive part of the set
\* name, id a case-insensitive part of the set code, query a case-insensitive
\* part of the name or of the code; with all three empty it returns the whole
\* Set collection.
C25_SetsPassingEveryPredicate ==
    (lookup.made /\ lookup.op = "SearchSets")
        => /\ lookup.result =
                 SelectSeq([i \in 1..Len(store.Sets) |-> i],
                           LAMBDA i : PassesSetFilter(store.Sets[i], lookup.arg))
           /\ (/\ lookup.arg.Name = EmptyString
               /\ lookup.arg.ID = EmptyString
               /\ lookup.arg.Query = EmptyString)
                 => lookup.result = [i \in 1..Len(store.Sets) |-> i]

\* SearchSets was called with a query that is a part of a set's code but not of
\* its name, and returned that set alone.
C25_QueryFoundInCodeOnly ==
    /\ lookup.made
    /\ lookup.op = "SearchSets"
    /\ lookup.arg.Query # EmptyString
    /\ Len(lookup.result) = 1
    /\ ~Contains(ToLower(store.Sets[lookup.result[1]].Name), ToLower(lookup.arg.Query))
    /\ Len(store.Sets) > 1

\* C21: after NewStore has returned, no query changes any collection, any index
\* bucket or any entity field: every step leaves the store as it was right
\* after the load.
C21_StoreNeverChangesAfterLoad ==
    [][(phase \in {"loaded", "ready"}) => (store' = store)]_vars

\* A lookup of a set code without a bucket has been made on a loaded store.
C21_QueryMadeOnLoadedStore ==
    /\ phase = "ready"
    /\ lookup.made
    /\ lookup.op = "GetCardsInSet"
    /\ IsNil(store.CardsBySetID, ToUpper(lookup.arg))
    /\ store.Cards # << >>

----------------------------------------------------------------------------
(* The HTTP API                                                            *)

\* C27: a GET /cards response never holds more than 100 cards, whatever the
\* value of the limit query parameter (absent, non-numeric, zero, negative, or
\* above 100).
C27_AtMostHundredCards ==
    (lookup.made /\ lookup.op = "ListCards")
        => Len(lookup.result.Data) <= LimitCap

\* C28: the result of SearchCards before pagination holds each card (UniqueID)
\* at most once for every filter, also when the candidates are the bucket of
\* the set index and a card has several printings in that set.
C28_NoCardTwiceInResult ==
    Unpaginated
        => \A j, k \in 1..Len(call.page) :
               j # k => store.Cards[call.page[j]].UniqueID
                            # store.Cards[call.page[k]].UniqueID

\* C29: when the connection's remote IP lies in no configured trusted-proxy
\* block (also when none is configured), the client IP is that remote IP, and
\* every request from the same remote address with other X-Forwarded-For and
\* X-Real-IP headers gets the same client IP.
C29_UntrustedHeadersIgnored ==
    (/\ lookup.made
     /\ lookup.op = "getClientIP"
     /\ \A cidr \in lookup.arg.proxies :
            (lookup.arg.request.remote \div cidr.size) * cidr.size # cidr.base)
        => /\ lookup.result = IPText(lookup.arg.request.remote)
           /\ \A xff \in ForwardedValues, xri \in RealIPValues :
                  getClientIP([lookup.arg.request EXCEPT !.XForwardedFor = xff,
                                                         !.XRealIP = xri],
                              lookup.arg.proxies) = lookup.result

\* A request came from an address outside the configured trusted block with an
\* X-Forwarded-For chain and an X-Real-IP header naming other addresses.
C29_UntrustedClientSentHeaders ==
    /\ lookup.made
    /\ lookup.op = "getClientIP"
    /\ lookup.arg.proxies # {}
    /\ ~Trusted(RemoteIP(lookup.arg.request), lookup.arg.proxies)
    /\ IndexOf(lookup.arg.request.XForwardedFor, ",") > 0
    /\ FirstForwarded(lookup.arg.request.XForwardedFor) # lookup.result
    /\ lookup.arg.request.XRealIP \notin {EmptyString, lookup.result}

\* The bucket of the IP holds a whole token, or the IP has no bucket yet.
NotExhausted(ip) ==
    ip \in DOMAIN limiter.clients => limiter.clients[ip].tokens >= OneToken

\* C30: rate limiting is per client IP and bounded by the configured rate: at
\* one instant an IP is allowed at most RATE_LIMIT_RPS requests under every
\* interleaving, a request that is not allowed is answered 429 and never
\* reaches the handler, and a request of an IP whose own bucket is not
\* exhausted is allowed whatever the other buckets hold.
C30_AtMostRPSPerIPAtAnInstant ==
    /\ [](/\ \A ip \in ClientIPs : window[ip].allowed <= limiter.rps
          /\ \A g \in Goroutines :
               /\ requests[g].allowed => requests[g].count <= limiter.rps
               /\ requests[g].status = 429 => ~requests[g].handled)
    /\ [][\A g \in Goroutines :
             /\ (/\ requests[g].pc = "read"
                 /\ requests'[g].pc = "decided"
                 /\ NotExhausted(requests[g].ip))
                   => requests'[g].allowed
             /\ (requests[g].pc = "decided" /\ requests'[g].pc = "done")
                   => requests'[g].status = IF requests[g].allowed THEN 200 ELSE 429]_vars

\* At one instant an IP has used up its rate and had a further request
\* answered 429, while a request of another IP was served.
C30_OneRejectedOtherServed ==
    \E g \in Goroutines, h \in Goroutines, ip \in ClientIPs, other \in ClientIPs :
        /\ limiter.rps = MaxRPS
        /\ window[ip].allowed = limiter.rps
        /\ window[ip].rejected
        /\ requests[g].pc = "done"
        /\ requests[g].status = 429
        /\ other # ip
        /\ ~NotExhausted(ip)
        /\ window[other].allowed > 0
        /\ requests[h].pc = "decided"
        /\ requests[h].ip = other
        /\ requests[h].allowed

====
